---- MODULE Spec2Model ----
(***************************************************************************)
(* Risk Language Bias Detector (src/RiskLanguageBiasDetector.py).          *)
(*                                                                         *)
(* Four specifications over one set of variables:                          *)
(*   SpecChunk  chunk_text run statement by statement (its while loop)     *)
(*   SpecNorm   normalize_keys applied to issue records                    *)
(*   SpecParse  the parsing half of analyze_bias applied to model output   *)
(*   Spec       the main script, run once per user interaction             *)
(* Strings are sequences of one-character strings, so that split, join,    *)
(* strip, upper, lower, find and int() are computed, not assumed.          *)
(***************************************************************************)
EXTENDS Integers, Sequences, FiniteSets, TLC

VARIABLES
    \* chunk_text (lines 39-48)
    text, chunk_size, overlap, words, segments, start, cpc,
    \* normalize_keys (lines 50-58)
    item, once, twice, napplied,
    \* analyze_bias, parsing half (lines 99-114)
    raw_reply, parse_out, ppc,
    \* main script (lines 143-241) and what the session keeps between runs
    uploaded_file, selected, button, pc, relevance_reply, relevance,
    doc_segments, todo, results, all_scores, all_categories, followups,
    screen, avg_score, analysed, issues, calls_in_run, relevance_calls, blocked, runs

chunkVars == <<text, chunk_size, overlap, words, segments, start, cpc>>
normVars  == <<item, once, twice, napplied>>
parseVars == <<raw_reply, parse_out, ppc>>
appVars   == <<uploaded_file, selected, button, pc, relevance_reply, relevance,
               doc_segments, todo, results, all_scores, all_categories,
               followups, screen, avg_score, analysed, issues, calls_in_run,
               relevance_calls, blocked, runs>>
vars == <<chunkVars, normVars, parseVars, appVars>>

(***************************************************************************)
(* Bounds                                                                  *)
(***************************************************************************)
MaxTextLen == 9
MaxChunk == 4
MaxIter == 3

(***************************************************************************)
(* Python sequence helpers                                                 *)
(***************************************************************************)
Min(a, b) == IF a < b THEN a ELSE b
Max(a, b) == IF a > b THEN a ELSE b

\* A slice bound as Python normalises it: negative counts from the end,
\* then clamped to 0..len.
SliceIndex(i, n) == IF i < 0 THEN Max(i + n, 0) ELSE Min(i, n)

\* s[a:b] with Python's 0-based, end-exclusive bounds.
Slice(s, a, b) ==
    LET lo == SliceIndex(a, Len(s))
        hi == SliceIndex(b, Len(s))
    IN  IF lo < hi THEN SubSeq(s, lo + 1, hi) ELSE <<>>

IsSpace(c) == c \in {" ", "\n", "\t"}

RECURSIVE Split(_)
\* str.split() with no separator: runs of whitespace separate words and
\* never produce an empty word.  Computed by halving at a whitespace
\* character: the first one from the middle on, else the last one.
Split(s) ==
    LET spaces == {i \in 1..Len(s) : IsSpace(s[i])}
        half   == (Len(s) + 1) \div 2
        after  == {i \in spaces : i >= half}
    IN  IF spaces = {}
        THEN IF s = <<>> THEN <<>> ELSE <<s>>
        ELSE LET mid == IF after # {}
                        THEN CHOOSE i \in after : \A j \in half..(i - 1) : ~IsSpace(s[j])
                        ELSE CHOOSE i \in spaces : \A j \in (i + 1)..Len(s) : ~IsSpace(s[j])
             IN  Split(SubSeq(s, 1, mid - 1)) \o Split(SubSeq(s, mid + 1, Len(s)))

RECURSIVE Join(_)
\* " ".join(ws), computed by halves.
Join(ws) ==
    IF ws = <<>> THEN <<>>
    ELSE IF Len(ws) = 1 THEN ws[1]
    ELSE LET h == Len(ws) \div 2
         IN  Join(SubSeq(ws, 1, h)) \o <<" ">> \o Join(SubSeq(ws, h + 1, Len(ws)))

(***************************************************************************)
(* chunk_text, one loop iteration per step                                 *)
(***************************************************************************)
Chars == {"a", " "}
Texts == UNION {[1..n -> Chars] : n \in 0..MaxTextLen}

ChunkEndShort(s, cs) == s + cs - 1
ChunkEnd(s, cs) == s + cs

ChunkAdvanceNoOverlap(s, cs, ov) == s + cs
ChunkAdvance(s, cs, ov) == s + cs - ov

ChunkSegment(ws, s, cs) == Join(Slice(ws, s, ChunkEnd(s, cs)))

ChunkInit ==
    /\ text \in Texts
    /\ chunk_size \in 0..MaxChunk
    /\ overlap \in 0..MaxChunk
    /\ words = Split(text)
    /\ segments = <<>>
    /\ start = 0
    /\ cpc = "while"

\* One pass through the body of `while start < len(words)`.  A run with
\* chunk_size <= overlap never leaves the loop; the model follows it for
\* MaxIter passes.
ChunkIter ==
    /\ cpc = "while"
    /\ start < Len(words)
    /\ chunk_size > overlap \/ Len(segments) < MaxIter
    /\ segments' = Append(segments, ChunkSegment(words, start, chunk_size))
    /\ start' = ChunkAdvance(start, chunk_size, overlap)
    /\ UNCHANGED <<text, chunk_size, overlap, words, cpc>>
    /\ UNCHANGED <<normVars, parseVars, appVars>>

ChunkReturn ==
    /\ cpc = "while"
    /\ ~(start < Len(words))
    /\ cpc' = "return"
    /\ UNCHANGED <<text, chunk_size, overlap, words, segments, start>>
    /\ UNCHANGED <<normVars, parseVars, appVars>>

(***************************************************************************)
(* Characters and strings                                                  *)
(***************************************************************************)
UpperLetters == <<"A","B","C","D","E","F","G","H","I","J","K","L","M",
                  "N","O","P","Q","R","S","T","U","V","W","X","Y","Z">>
LowerLetters == <<"a","b","c","d","e","f","g","h","i","j","k","l","m",
                  "n","o","p","q","r","s","t","u","v","w","x","y","z">>

IndexIn(c, letters) ==
    IF \E i \in 1..Len(letters) : letters[i] = c
    THEN CHOOSE i \in 1..Len(letters) : letters[i] = c
    ELSE 0

LowerChar(c) ==
    IF IndexIn(c, UpperLetters) > 0 THEN LowerLetters[IndexIn(c, UpperLetters)] ELSE c
UpperChar(c) ==
    IF IndexIn(c, LowerLetters) > 0 THEN UpperLetters[IndexIn(c, LowerLetters)] ELSE c

\* str.lower(), str.upper()
LowerStr(s) == [i \in 1..Len(s) |-> LowerChar(s[i])]
UpperStr(s) == [i \in 1..Len(s) |-> UpperChar(s[i])]

\* str.strip(): leading and trailing whitespace removed.
Strip(s) ==
    IF \A i \in 1..Len(s) : IsSpace(s[i]) THEN <<>>
    ELSE LET lo == CHOOSE i \in 1..Len(s) :
                       ~IsSpace(s[i]) /\ \A j \in 1..(i - 1) : IsSpace(s[j])
             hi == CHOOSE i \in 1..Len(s) :
                       ~IsSpace(s[i]) /\ \A j \in (i + 1)..Len(s) : IsSpace(s[j])
         IN  SubSeq(s, lo, hi)

\* str.find(c): 0-based index of the first occurrence, -1 when absent.
Find(s, c) ==
    IF \E i \in 1..Len(s) : s[i] = c
    THEN (CHOOSE i \in 1..Len(s) : s[i] = c /\ \A j \in 1..(i - 1) : s[j] # c) - 1
    ELSE -1

\* str.rfind(c): 0-based index of the last occurrence, -1 when absent.
RFind(s, c) ==
    IF \E i \in 1..Len(s) : s[i] = c
    THEN (CHOOSE i \in 1..Len(s) : s[i] = c /\ \A j \in (i + 1)..Len(s) : s[j] # c) - 1
    ELSE -1

(***************************************************************************)
(* JSON values and Python dicts.  A value is [kind, v]; a dict's v is its  *)
(* items in insertion order, each <<key, value>>, keys distinct.           *)
(***************************************************************************)
JInt(n)   == [kind |-> "int", v |-> n]
JStr(s)   == [kind |-> "str", v |-> s]
JDict(ps) == [kind |-> "dict", v |-> ps]
JList(xs) == [kind |-> "list", v |-> xs]
JNull     == [kind |-> "null", v |-> 0]
JFloat(tenths) == [kind |-> "float", v |-> tenths]

DictKeys(ps) == {ps[i][1] : i \in 1..Len(ps)}
HasKey(ps, k) == k \in DictKeys(ps)
DictIndex(ps, k) == CHOOSE i \in 1..Len(ps) : ps[i][1] = k
\* d.get(k, default)
DictGet(ps, k, default) == IF HasKey(ps, k) THEN ps[DictIndex(ps, k)][2] ELSE default
\* d[k] = v: a present key keeps its place and takes the new value.
DictSet(ps, k, val) ==
    IF HasKey(ps, k)
    THEN [ps EXCEPT ![DictIndex(ps, k)] = <<k, val>>]
    ELSE Append(ps, <<k, val>>)

K_phrase == <<"p", "h", "r", "a", "s", "e">>
K_category == <<"c", "a", "t", "e", "g", "o", "r", "y">>
K_explanation == <<"e", "x", "p", "l", "a", "n", "a", "t", "i", "o", "n">>
K_bias_score == <<"b", "i", "a", "s", "_", "s", "c", "o", "r", "e">>
K_recommendation == <<"r", "e", "c", "o", "m", "m", "e", "n", "d", "a", "t", "i", "o", "n">>
K_error == <<"e", "r", "r", "o", "r">>
K_raw_output == <<"r", "a", "w", "_", "o", "u", "t", "p", "u", "t">>
K_Phrase == <<"P", "h", "r", "a", "s", "e">>
K_PHRASE == <<"P", "H", "R", "A", "S", "E">>
K_Bias_Score == <<"B", "i", "a", "s", "_", "S", "c", "o", "r", "e">>
K_Category == <<"C", "a", "t", "e", "g", "o", "r", "y">>
K_RECOMMENDATION == <<"R", "E", "C", "O", "M", "M", "E", "N", "D", "A", "T", "I", "O", "N">>
K_Foo == <<"F", "o", "o">>
K_foo == <<"f", "o", "o">>

(***************************************************************************)
(* normalize_keys                                                          *)
(***************************************************************************)
CanonicalNames == {K_phrase, K_category, K_explanation, K_bias_score, K_recommendation}

\* The `mapping` literal: each canonical name maps to itself.
Mapping == [c \in CanonicalNames |-> c]
MappingGet(k, default) == IF k \in DOMAIN Mapping THEN Mapping[k] ELSE default

NormalizedKeyLowersAll(k) == MappingGet(LowerStr(k), LowerStr(k))
\* mapping.get(k.lower(), k)
NormalizedKey(k) == MappingGet(LowerStr(k), k)

RECURSIVE NormalizeFrom(_, _, _)
NormalizeFrom(ps, i, acc) ==
    IF i > Len(ps) THEN acc
    ELSE NormalizeFrom(ps, i + 1, DictSet(acc, NormalizedKey(ps[i][1]), ps[i][2]))

\* {mapping.get(k.lower(), k): v for k, v in item.items()}
normalize_keys(ps) == NormalizeFrom(ps, 1, <<>>)

(***************************************************************************)
(* json.loads on model output.  The output is a sequence of tokens: the    *)
(* structural characters "[", "]", ",", whitespace, the digit "7", a prose *)
(* character "p" that no JSON text contains, and object literals, each one *)
(* token standing for the text of a JSON object (ObjectOf decodes it).     *)
(***************************************************************************)
IssueTen      == << <<K_phrase, JStr(<<"x">>)>>, <<K_category, JStr(<<"A">>)>>,
                    <<K_bias_score, JInt(10)>>, <<K_recommendation, JStr(<<"r">>)>> >>
IssueTwenty   == << <<K_phrase, JStr(<<"y">>)>>, <<K_bias_score, JInt(20)>> >>
IssueBad      == << <<K_phrase, JStr(<<"z">>)>>, <<K_bias_score, JStr(<<"b","a","d">>)>> >>
IssueCaps     == << <<K_Phrase, JStr(<<"x">>)>>, <<K_Category, JStr(<<"A">>)>>,
                    <<K_Bias_Score, JStr(<<"7","0">>)>> >>
IssueNoScore  == << <<K_phrase, JStr(<<"w">>)>>, <<K_category, JStr(<<"D">>)>> >>
IssueError    == << <<K_error, JStr(<<"e">>)>>, <<K_bias_score, JInt(30)>> >>

ObjectTokens == {"{ten}", "{twenty}", "{bad}", "{caps}", "{noscore}", "{error}"}
ObjectOf(tok) ==
    CASE tok = "{ten}"     -> IssueTen
      [] tok = "{twenty}"  -> IssueTwenty
      [] tok = "{bad}"     -> IssueBad
      [] tok = "{caps}"    -> IssueCaps
      [] tok = "{noscore}" -> IssueNoScore
      [] tok = "{error}"   -> IssueError

RECURSIVE LexFrom(_, _, _)
\* Whitespace between lexemes is dropped; adjacent digits are one number.
LexFrom(s, i, acc) ==
    IF i > Len(s) THEN acc
    ELSE IF IsSpace(s[i]) THEN LexFrom(s, i + 1, acc)
    ELSE IF s[i] = "7" /\ i > 1 /\ s[i - 1] = "7" THEN LexFrom(s, i + 1, acc)
    ELSE LexFrom(s, i + 1, Append(acc, s[i]))

Lex(s) == LexFrom(s, 1, <<>>)

RECURSIVE DepthAt(_, _)
\* Bracket depth after the first i lexemes.
DepthAt(l, i) ==
    IF i = 0 THEN 0
    ELSE DepthAt(l, i - 1) + (IF l[i] = "[" THEN 1 ELSE IF l[i] = "]" THEN -1 ELSE 0)

TopCommas(l) == {i \in 1..Len(l) : l[i] = "," /\ DepthAt(l, i) = 0}
FirstTopComma(l) == CHOOSE i \in TopCommas(l) : \A j \in TopCommas(l) : i <= j

JsonFail == [ok |-> FALSE, value |-> JNull]
JsonOk(val) == [ok |-> TRUE, value |-> val]

RECURSIVE ParseValue(_)
RECURSIVE ParseElements(_)
\* value := number | object | "[" "]" | "[" elements "]"
ParseValue(l) ==
    IF Len(l) = 1 /\ l[1] = "7" THEN JsonOk(JInt(7))
    ELSE IF Len(l) = 1 /\ l[1] \in ObjectTokens THEN JsonOk(JDict(ObjectOf(l[1])))
    ELSE IF Len(l) >= 2 /\ l[1] = "[" /\ l[Len(l)] = "]"
         THEN IF Len(l) = 2 THEN JsonOk(JList(<<>>))
              ELSE LET es == ParseElements(SubSeq(l, 2, Len(l) - 1))
                   IN  IF es.ok THEN JsonOk(JList(es.value)) ELSE JsonFail
    ELSE JsonFail

\* elements := value | value "," elements; the result's value is the
\* sequence of the decoded elements.
ParseElements(l) ==
    IF TopCommas(l) = {}
    THEN LET one == ParseValue(l)
         IN  IF one.ok THEN JsonOk(<<one.value>>) ELSE JsonFail
    ELSE LET c    == FirstTopComma(l)
             head == ParseValue(SubSeq(l, 1, c - 1))
             rest == IF c < Len(l) THEN ParseElements(SubSeq(l, c + 1, Len(l)))
                     ELSE JsonFail
         IN  IF head.ok /\ rest.ok THEN JsonOk(<<head.value>> \o rest.value)
             ELSE JsonFail

\* json.loads(s): ok is FALSE where json.loads raises.
JsonLoads(s) == ParseValue(Lex(s))

(***************************************************************************)
(* analyze_bias, from the model's reply on (lines 99-114)                  *)
(***************************************************************************)
Returned(val) == [outcome |-> "return", value |-> val]
Raised(exc)   == [outcome |-> "raise", value |-> JStr(<<exc>>)]

ErrorRecord(msg, raw_output) ==
    JDict(<< <<K_error, JStr(<<msg>>)>>, <<K_raw_output, JStr(raw_output)>> >>)

\* [normalize_keys(item) for item in parsed] if isinstance(parsed, list)
\* else parsed.  item.items() raises AttributeError unless item is a dict.
NormalizeParsed(parsed) ==
    IF parsed.kind = "list"
    THEN IF \A i \in 1..Len(parsed.v) : parsed.v[i].kind = "dict"
         THEN Returned(JList([i \in 1..Len(parsed.v) |->
                                 JDict(normalize_keys(parsed.v[i].v))]))
         ELSE Raised("AttributeError")
    ELSE Returned(parsed)

BracketFallbackUncaught(raw_output) ==
    LET first == Find(raw_output, "[")
        last  == RFind(raw_output, "]") + 1
    IN  IF first # -1 /\ last # -1
        THEN LET inner == JsonLoads(Slice(raw_output, first, last))
             IN  IF inner.ok THEN NormalizeParsed(inner.value)
                 ELSE Raised("JSONDecodeError")
        ELSE Returned(JList(<<ErrorRecord("No JSON detected", raw_output)>>))
\* The except branch of lines 103-112.
BracketFallback(raw_output) ==
    LET first == Find(raw_output, "[")
        last  == RFind(raw_output, "]") + 1
    IN  IF first # -1 /\ last # -1
        THEN LET inner == JsonLoads(Slice(raw_output, first, last))
             IN  IF inner.ok THEN NormalizeParsed(inner.value)
                 ELSE Returned(JList(<<ErrorRecord("Parse error", raw_output)>>))
        ELSE Returned(JList(<<ErrorRecord("No JSON detected", raw_output)>>))

\* analyze_bias given the content of the model's message.
analyze_bias(content) ==
    LET raw_output == Strip(content)
        whole      == JsonLoads(raw_output)
    IN  IF whole.ok THEN NormalizeParsed(whole.value)
        ELSE BracketFallback(raw_output)

(***************************************************************************)
(* Values the variables of the other specifications rest at                *)
(***************************************************************************)
ChunkIdle ==
    /\ text = <<>> /\ chunk_size = 0 /\ overlap = 0 /\ words = <<>>
    /\ segments = <<>> /\ start = 0 /\ cpc = "idle"
NormIdle ==
    /\ item = <<>> /\ once = <<>> /\ twice = <<>> /\ napplied = 0
ParseIdle ==
    /\ raw_reply = <<>> /\ parse_out = Returned(JNull) /\ ppc = "idle"

(***************************************************************************)
(* SpecNorm: normalize_keys applied once, then again to its own result     *)
(***************************************************************************)
MaxKeys == 3

KeyPool == {K_phrase, K_Phrase, K_PHRASE, K_Bias_Score, K_Category,
            K_RECOMMENDATION, K_Foo, K_foo}
ValuePool == {JInt(1), JInt(2)}

\* The dicts of at most MaxKeys items over the pools (keys distinct).
Records ==
    UNION {{ps \in [1..n -> KeyPool \X ValuePool] :
               \A i, j \in 1..n : i # j => ps[i][1] # ps[j][1]} : n \in 0..MaxKeys}

NormInit ==
    /\ item \in Records
    /\ once = <<>> /\ twice = <<>> /\ napplied = 0

NormFirst ==
    /\ napplied = 0
    /\ once' = normalize_keys(item)
    /\ napplied' = 1
    /\ UNCHANGED <<item, twice>>
    /\ UNCHANGED <<chunkVars, parseVars, appVars>>

NormSecond ==
    /\ napplied = 1
    /\ twice' = normalize_keys(once)
    /\ napplied' = 2
    /\ UNCHANGED <<item, once>>
    /\ UNCHANGED <<chunkVars, parseVars, appVars>>

(***************************************************************************)
(* SpecParse: analyze_bias on every short reply                            *)
(***************************************************************************)
MaxReplyLen == 4

ReplyTokens == {"[", "]", ",", " ", "7", "p", "{ten}"}
Replies == UNION {[1..n -> ReplyTokens] : n \in 0..MaxReplyLen}

ParseInit ==
    /\ raw_reply \in Replies
    /\ parse_out = Returned(JNull) /\ ppc = "call"

ParseReply ==
    /\ ppc = "call"
    /\ parse_out' = analyze_bias(raw_reply)
    /\ ppc' = "done"
    /\ UNCHANGED raw_reply
    /\ UNCHANGED <<chunkVars, normVars, appVars>>

(***************************************************************************)
(* int() and str() as the main script uses them                            *)
(***************************************************************************)
Digits == <<"0", "1", "2", "3", "4", "5", "6", "7", "8", "9">>
IsDigit(c) == IndexIn(c, Digits) > 0

RECURSIVE DigitsValue(_)
DigitsValue(s) ==
    IF s = <<>> THEN 0
    ELSE DigitsValue(SubSeq(s, 1, Len(s) - 1)) * 10 + (IndexIn(s[Len(s)], Digits) - 1)

RECURSIVE DecimalDigits(_)
\* str(n) for n >= 0
DecimalDigits(n) ==
    IF n < 10 THEN <<Digits[n + 1]>>
    ELSE DecimalDigits(n \div 10) \o <<Digits[(n % 10) + 1]>>

IntFail == [ok |-> FALSE, n |-> 0]
IntOk(n) == [ok |-> TRUE, n |-> n]

\* int(s) for a str: surrounding whitespace and one sign are accepted, then
\* decimal digits only.
IntOfStr(s) ==
    LET t    == Strip(s)
        neg  == t # <<>> /\ t[1] = "-"
        body == IF t # <<>> /\ t[1] \in {"-", "+"} THEN Tail(t) ELSE t
    IN  IF body # <<>> /\ \A i \in 1..Len(body) : IsDigit(body[i])
        THEN IntOk(IF neg THEN 0 - DigitsValue(body) ELSE DigitsValue(body))
        ELSE IntFail

\* int(x): ok is FALSE where int raises (ValueError, TypeError).  A float
\* (held in tenths) truncates toward zero.
PyInt(x) ==
    CASE x.kind = "int"   -> IntOk(x.v)
      [] x.kind = "str"   -> IntOfStr(x.v)
      [] x.kind = "float" -> IntOk(IF x.v >= 0 THEN x.v \div 10 ELSE 0 - ((0 - x.v) \div 10))
      [] OTHER            -> IntFail

(***************************************************************************)
(* The main script.  Streamlit runs it from the top on every interaction   *)
(* with a widget it rendered; between runs the session keeps the uploaded  *)
(* file and the widgets' values.  A run blocks at each ollama.chat call,   *)
(* so a run is one step up to the relevance call, one step per reply.      *)
(***************************************************************************)
DefaultChunkSize == 300
DefaultOverlap == 50

MaxDocWords == 260
MaxRuns == 4

NoFile == [present |-> FALSE, nwords |-> 0]
Files == {[present |-> TRUE, nwords |-> n] : n \in {0, MaxDocWords}}

\* extract_text of a .txt upload of n one-letter words.
extract_text(file) == Join([i \in 1..file.nwords |-> <<"a">>])

RECURSIVE ChunkLoop(_, _, _, _, _)
ChunkLoop(ws, s, cs, ov, acc) ==
    IF s < Len(ws)
    THEN ChunkLoop(ws, ChunkAdvance(s, cs, ov), cs, ov, Append(acc, ChunkSegment(ws, s, cs)))
    ELSE acc

\* chunk_text run to its return (chunk_size > overlap).
chunk_text(t, cs, ov) == ChunkLoop(Split(t), 0, cs, ov, <<>>)

\* f"Segment {i+1}: {segments[i][:80]}..."  (i from 0)
SegOption(segs, i) ==
    <<"S", "e", "g", "m", "e", "n", "t", " ">> \o DecimalDigits(i + 1) \o <<":", " ">>
        \o Slice(segs[i + 1], 0, 80) \o <<".", ".", ".">>
seg_options(segs) == [i \in 1..Len(segs) |-> SegOption(segs, i - 1)]

\* int(choice.split()[1].replace(":", "")) - 1
ChoiceIndex(choice) ==
    PyInt(JStr(SelectSeq(Split(choice)[2], LAMBDA c : c # ":"))).n - 1

\* What the multiselect can hold: the options in the order picked.
Selections(opts) ==
    UNION {{sel \in [1..n -> {opts[i] : i \in 1..Len(opts)}] :
               \A i, j \in 1..n : i # j => sel[i] # sel[j]} : n \in 0..Len(opts)}

NO == <<"N", "O">>
NA == JStr(<<"N", "/", "A">>)

RelevanceReplies ==
    { <<"N", "O">>, <<"n", "o">>, <<" ", "N", "o", "\n">>, <<"N", "O", ".">>,
      <<"N", " ", "O">>, <<"Y", "E", "S">>, <<"y", "e", "s">>, <<>> }

AnalysisReplies ==
    { <<"[", "{ten}", ",", "{twenty}", ",", "{bad}", "]">>,
      <<"p", " ", "p">>,
      <<"p", " ", "[", "{caps}", "]", " ", "p">>,
      <<"[", "7", "]">>,
      <<"{ten}">>,
      <<"[", "{noscore}", "]">>,
      <<"[", "p">>,
      <<"[", "{error}", "]">>,
      <<"[", "]">> }

\* response["message"]["content"].strip().upper()
check_relevance(reply) == UpperStr(Strip(reply))

GateBlocksPrefix(rel) == Len(rel) >= 2 /\ SubSeq(rel, 1, 2) = NO
\* relevance == "NO"
GateBlocks(rel) == rel = NO

(***************************************************************************)
(* The per-item body of the analysis loop (lines 191-222)                  *)
(***************************************************************************)
IsNA(x) == x.kind = "str" /\ x.v = NA.v

\* str(x) inside an f-string, for the values the replies carry.
StrOf(x) == IF x.kind = "str" THEN x.v ELSE <<x.kind>>

\* item.get('bias_score', 0)
ScoreOf(d) == DictGet(d, K_bias_score, JInt(0))

\* acc: the run's lists and what it has put on the page so far.
ProcessItem(acc, d) ==
    IF HasKey(d, K_error)
    THEN [acc EXCEPT !.screen = Append(@, "parse_error")]
    ELSE LET category       == DictGet(d, K_category, NA)
             recommendation == DictGet(d, K_recommendation, NA)
             score          == PyInt(ScoreOf(d))
         IN  [acc EXCEPT
                !.categories = IF IsNA(category) THEN @ ELSE Append(@, category),
                !.followups  = IF IsNA(recommendation) THEN @
                               ELSE Append(@, <<"-", " ">> \o StrOf(recommendation)),
                !.scores     = IF score.ok THEN Append(@, score.n) ELSE @,
                !.issues     = Append(@, d),
                !.screen     = Append(@, "issue_card")]

RECURSIVE ProcessItems(_, _, _)
ProcessItems(acc, xs, i) ==
    IF i > Len(xs) THEN acc
    ELSE ProcessItems(ProcessItem(acc, xs[i].v), xs, i + 1)

\* if isinstance(results, list): for item in results: ...
ProcessResults(acc, res) ==
    IF res.kind = "list" THEN ProcessItems(acc, res.v, 1) ELSE acc

RECURSIVE SumSeq(_)
SumSeq(xs) == IF xs = <<>> THEN 0 ELSE xs[1] + SumSeq(Tail(xs))

NoAvg == [defined |-> FALSE, num |-> 0, den |-> 1]
\* sum(all_scores) / len(all_scores), kept as the exact quotient num/den.
Average(xs) == [defined |-> TRUE, num |-> SumSeq(xs), den |-> Len(xs)]

\* Lines 224-241: what the summary puts on the page.
SummaryScreen(acc) ==
    <<"summary">>
      \o (IF acc.scores # <<>> THEN <<"gauge">> ELSE <<>>)
      \o (IF acc.categories # <<>> THEN <<"category_chart">> ELSE <<>>)
      \o (IF acc.followups # <<>> THEN <<"questionnaire">> ELSE <<>>)

(***************************************************************************)
(* Spec: the session                                                       *)
(***************************************************************************)
AppIdle ==
    /\ uploaded_file = NoFile /\ selected = <<>> /\ button = FALSE
    /\ pc = "idle" /\ relevance_reply = <<>> /\ relevance = <<>>
    /\ doc_segments = <<>> /\ todo = <<>> /\ results = JNull
    /\ all_scores = <<>> /\ all_categories = <<>> /\ followups = <<>>
    /\ screen = <<"landing">> /\ avg_score = NoAvg /\ analysed = <<>>
    /\ issues = <<>> /\ calls_in_run = 0 /\ relevance_calls = 0
    /\ blocked = FALSE /\ runs = 0

Shown(what) == \E i \in 1..Len(screen) : screen[i] = what

\* The script's names are rebound on every run.
RunReset ==
    /\ relevance_reply' = <<>> /\ relevance' = <<>> /\ todo' = <<>>
    /\ results' = JNull /\ all_scores' = <<>> /\ all_categories' = <<>>
    /\ followups' = <<>> /\ avg_score' = NoAvg /\ analysed' = <<>>
    /\ issues' = <<>> /\ calls_in_run' = 0

\* Lines 143-169 up to the ollama.chat call inside check_relevance.
RunScript(file) ==
    /\ RunReset
    /\ runs' = runs + 1
    /\ IF file.present
       THEN /\ doc_segments' = chunk_text(extract_text(file), DefaultChunkSize, DefaultOverlap)
            /\ screen' = <<>>
            /\ pc' = "check_relevance"
       ELSE /\ doc_segments' = <<>>
            /\ screen' = <<"landing">>
            /\ pc' = "idle"

Upload ==
    \E f \in Files :
        /\ pc = "idle" /\ runs < MaxRuns
        /\ uploaded_file' = f
        /\ selected' = <<>> /\ button' = FALSE
        /\ relevance_calls' = 0 /\ blocked' = FALSE
        /\ RunScript(f)
    /\ UNCHANGED <<chunkVars, normVars, parseVars>>

ClearFile ==
    /\ pc = "idle" /\ runs < MaxRuns
    /\ uploaded_file.present
    /\ uploaded_file' = NoFile
    /\ selected' = <<>> /\ button' = FALSE
    /\ relevance_calls' = 0 /\ blocked' = FALSE
    /\ RunScript(NoFile)
    /\ UNCHANGED <<chunkVars, normVars, parseVars>>

ChangeSelection ==
    \E sel \in Selections(seg_options(doc_segments)) :
        /\ pc = "idle" /\ runs < MaxRuns
        /\ Shown("picker")
        /\ sel # selected
        /\ selected' = sel /\ button' = FALSE
        /\ UNCHANGED <<uploaded_file, relevance_calls, blocked>>
        /\ RunScript(uploaded_file)
    /\ UNCHANGED <<chunkVars, normVars, parseVars>>

ClickRun ==
    /\ pc = "idle" /\ runs < MaxRuns
    /\ Shown("picker")
    /\ button' = TRUE
    /\ UNCHANGED <<uploaded_file, selected, relevance_calls, blocked>>
    /\ RunScript(uploaded_file)
    /\ UNCHANGED <<chunkVars, normVars, parseVars>>

\* check_relevance returns; lines 170-182.
RelevanceReply ==
    \E reply \in RelevanceReplies :
        /\ pc = "check_relevance"
        /\ relevance_reply' = reply
        /\ relevance' = check_relevance(reply)
        /\ calls_in_run' = calls_in_run + 1
        /\ relevance_calls' = relevance_calls + 1
        /\ IF GateBlocks(relevance')
           THEN /\ screen' = Append(screen, "not_relevant")
                /\ blocked' = TRUE
                /\ pc' = "idle"
                /\ todo' = <<>>
           ELSE /\ blocked' = blocked
                /\ IF button
                   THEN IF selected = <<>>
                        THEN /\ screen' = screen \o <<"picker", "warning">>
                             /\ pc' = "idle"
                             /\ todo' = <<>>
                        ELSE /\ screen' = Append(screen, "picker")
                             /\ pc' = "analyze"
                             /\ todo' = selected
                   ELSE /\ screen' = Append(screen, "picker")
                        /\ pc' = "idle"
                        /\ todo' = <<>>
        /\ UNCHANGED <<uploaded_file, selected, button, doc_segments, results,
                       all_scores, all_categories, followups, avg_score,
                       analysed, issues, runs>>
    /\ UNCHANGED <<chunkVars, normVars, parseVars>>

\* analyze_bias returns or raises for the next choice; lines 184-241.  An
\* exception analyze_bias raises is not caught: the run ends there.
AnalysisReply ==
    \E reply \in AnalysisReplies :
        /\ pc = "analyze"
        /\ LET choice == Head(todo)
               idx    == ChoiceIndex(choice)
               out    == analyze_bias(reply)
               acc0   == [scores |-> all_scores, categories |-> all_categories,
                          followups |-> followups, issues |-> issues,
                          screen |-> Append(screen, "segment_header")]
               acc    == IF out.outcome = "return" THEN ProcessResults(acc0, out.value)
                         ELSE acc0
               last   == Tail(todo) = <<>>
           IN  /\ idx \in 0..(Len(doc_segments) - 1)
               /\ analysed' = Append(analysed, idx)
               /\ calls_in_run' = calls_in_run + 1
               /\ results' = IF out.outcome = "return" THEN out.value ELSE results
               /\ all_scores' = acc.scores
               /\ all_categories' = acc.categories
               /\ followups' = acc.followups
               /\ issues' = acc.issues
               /\ IF out.outcome = "raise"
                  THEN /\ screen' = Append(acc.screen, "exception")
                       /\ pc' = "idle"
                       /\ todo' = todo
                       /\ avg_score' = avg_score
                  ELSE /\ todo' = Tail(todo)
                       /\ pc' = IF last THEN "idle" ELSE "analyze"
                       /\ screen' = IF last THEN acc.screen \o SummaryScreen(acc)
                                    ELSE acc.screen
                       /\ avg_score' = IF last /\ acc.scores # <<>>
                                       THEN Average(acc.scores) ELSE avg_score
        /\ UNCHANGED <<uploaded_file, selected, button, relevance_reply, relevance,
                       doc_segments, relevance_calls, blocked, runs>>
    /\ UNCHANGED <<chunkVars, normVars, parseVars>>

Init == AppIdle /\ ChunkIdle /\ NormIdle /\ ParseIdle
Next == Upload \/ ClearFile \/ ChangeSelection \/ ClickRun \/ RelevanceReply \/ AnalysisReply
Spec == Init /\ [][Next]_vars

InitChunk == ChunkInit /\ NormIdle /\ ParseIdle /\ AppIdle
NextChunk == ChunkIter \/ ChunkReturn
SpecChunk == InitChunk /\ [][NextChunk]_vars

InitNorm == NormInit /\ ChunkIdle /\ ParseIdle /\ AppIdle
NextNorm == NormFirst \/ NormSecond
SpecNorm == InitNorm /\ [][NextNorm]_vars

InitParse == ParseInit /\ ChunkIdle /\ NormIdle /\ AppIdle
NextParse == ParseReply
SpecParse == InitParse /\ [][NextParse]_vars

(***************************************************************************)
(* Properties of chunk_text (SpecChunk)                                    *)
(***************************************************************************)
WordsOf(seg) == Split(seg)
FirstWords(ws, n) == SubSeq(ws, 1, Min(n, Len(ws)))
LastWords(ws, n) == SubSeq(ws, Len(ws) - Min(n, Len(ws)) + 1, Len(ws))
DropWords(ws, n) == SubSeq(ws, Min(n, Len(ws)) + 1, Len(ws))

RECURSIVE Reconstruct(_, _, _)
\* The first segment's words, then each later segment's words without its
\* first ov words.
Reconstruct(segs, i, ov) ==
    IF i > Len(segs) THEN <<>>
    ELSE (IF i = 1 THEN WordsOf(segs[1]) ELSE DropWords(WordsOf(segs[i]), ov))
             \o Reconstruct(segs, i + 1, ov)

OverlapAgrees(i) ==
    LastWords(WordsOf(segments[i]), overlap) = FirstWords(WordsOf(segments[i + 1]), overlap)

\* C1: a configuration with chunk_size <= overlap is rejected: chunk_text
\* neither produces a segment nor returns normally for it.
C1_InvalidConfigRejected ==
    chunk_size <= overlap => (segments = <<>> /\ cpc # "return")

\* C2: when chunk_text returns under chunk_size > overlap >= 0, the first
\* segment's words followed by every later segment's words minus its first
\* `overlap` words are exactly the words of the text, and an empty text
\* gives no segment.
C2_Reconstructs ==
    (cpc = "return" /\ chunk_size > overlap) =>
        /\ Reconstruct(segments, 1, overlap) = Split(text)
        /\ text = <<>> => segments = <<>>

C2_Witness ==
    /\ cpc = "return" /\ chunk_size > overlap /\ overlap > 0
    /\ Len(segments) >= 3
    /\ Len(WordsOf(segments[Len(segments)])) < overlap
    /\ \E i, j \in 1..Len(words) : words[i] # words[j]

\* C3 as claimed: every consecutive pair that does not involve the final
\* segment agrees on its `overlap` words.
C3_AllButFinalPairOverlap ==
    (cpc = "return" /\ chunk_size > overlap) =>
        \A i \in 1..(Len(segments) - 2) : OverlapAgrees(i)

\* C3 amended: a segment that holds chunk_size words and has a successor
\* ends with the `overlap` words its successor starts with; the pairs whose
\* first segment is shorter than chunk_size are the exception, and there
\* can be several of them at the end of the document.
C3_FullSegmentOverlap ==
    (cpc = "return" /\ chunk_size > overlap) =>
        \A i \in 1..(Len(segments) - 1) :
            Len(WordsOf(segments[i])) = chunk_size =>
                /\ Len(WordsOf(segments[i + 1])) >= overlap
                /\ OverlapAgrees(i)

C3_Witness ==
    /\ cpc = "return" /\ chunk_size > overlap /\ overlap > 0
    /\ \E i \in 1..(Len(segments) - 1) :
          /\ Len(WordsOf(segments[i])) = chunk_size
          /\ Len(WordsOf(segments[i + 1])) < chunk_size
    /\ \E i \in 1..(Len(segments) - 2) : ~OverlapAgrees(i)

(***************************************************************************)
(* Properties of normalize_keys (SpecNorm)                                 *)
(***************************************************************************)
EqualIgnoringCase(a, b) ==
    /\ Len(a) = Len(b)
    /\ \A i \in 1..Len(a) : a[i] = b[i] \/ UpperChar(a[i]) = b[i] \/ a[i] = UpperChar(b[i])

CanonicalOf(k) ==
    IF \E c \in CanonicalNames : EqualIgnoringCase(k, c)
    THEN CHOOSE c \in CanonicalNames : EqualIgnoringCase(k, c)
    ELSE k

LastIndexFor(ps, c) ==
    CHOOSE i \in 1..Len(ps) :
        /\ CanonicalOf(ps[i][1]) = c
        /\ \A j \in (i + 1)..Len(ps) : CanonicalOf(ps[j][1]) # c

\* C9: normalize_keys turns each key that matches a canonical name without
\* regard to case into that name and leaves every other key as it is (a
\* later item wins where two keys meet), and applying it to its own result
\* changes nothing.
C9_NormalizeIdempotent ==
    /\ napplied >= 1 =>
          /\ DictKeys(once) = {CanonicalOf(k) : k \in DictKeys(item)}
          /\ Cardinality(DictKeys(once)) = Len(once)
          /\ \A i \in 1..Len(once) :
                once[i][2] = item[LastIndexFor(item, once[i][1])][2]
    /\ napplied = 2 => twice = once

C9_Witness ==
    /\ napplied = 2
    /\ HasKey(item, K_Foo) /\ HasKey(item, K_PHRASE) /\ HasKey(item, K_phrase)
    /\ Len(once) = 2 /\ HasKey(once, K_Foo)

(***************************************************************************)
(* Properties of analyze_bias (SpecParse)                                  *)
(***************************************************************************)
\* The text from the first "[" to the last "]", empty when there is none.
BracketSubstring(raw) ==
    IF Find(raw, "[") # -1 /\ RFind(raw, "]") # -1 /\ Find(raw, "[") <= RFind(raw, "]")
    THEN SubSeq(raw, Find(raw, "[") + 1, RFind(raw, "]") + 1)
    ELSE <<>>

Unparseable(raw) ==
    /\ ~JsonLoads(raw).ok
    /\ \/ Find(raw, "[") = -1
       \/ RFind(raw, "]") = -1
       \/ ~JsonLoads(BracketSubstring(raw)).ok

IsOneErrorRecord(out, raw) ==
    /\ out.outcome = "return"
    /\ out.value.kind = "list"
    /\ Len(out.value.v) = 1
    /\ out.value.v[1].kind = "dict"
    /\ HasKey(out.value.v[1].v, K_error)
    /\ HasKey(out.value.v[1].v, K_raw_output)
    /\ DictGet(out.value.v[1].v, K_raw_output, JNull) = JStr(raw)

\* C6: a reply that is no JSON as a whole, and that has no bracket or whose
\* text from the first "[" to the last "]" is no JSON either, comes back
\* from analyze_bias as a list of one error record carrying the trimmed
\* reply; analyze_bias does not raise.
C6_ParseFailureIsOneErrorRecord ==
    (ppc = "done" /\ Unparseable(Strip(raw_reply))) =>
        IsOneErrorRecord(parse_out, Strip(raw_reply))

C6_Witness ==
    /\ ppc = "done"
    /\ Unparseable(Strip(raw_reply))
    /\ Strip(raw_reply) # raw_reply
    /\ Find(raw_reply, "[") # -1 /\ RFind(raw_reply, "]") # -1
    /\ BracketSubstring(Strip(raw_reply)) # <<>>
    /\ IsOneErrorRecord(parse_out, Strip(raw_reply))

(***************************************************************************)
(* Properties of the session (Spec)                                        *)
(***************************************************************************)
RECURSIVE ConvertibleScores(_)
\* The int() of every bias_score field that int() accepts, in order.
ConvertibleScores(ds) ==
    IF ds = <<>> THEN <<>>
    ELSE (IF HasKey(ds[1], K_bias_score) /\ PyInt(DictGet(ds[1], K_bias_score, JNull)).ok
          THEN <<PyInt(DictGet(ds[1], K_bias_score, JNull)).n>> ELSE <<>>)
             \o ConvertibleScores(Tail(ds))

SelectedIndices == [i \in 1..Len(selected) |-> ChoiceIndex(selected[i])]

\* C4: when a run reaches its summary, the score list holds exactly the
\* integer values of the bias_score fields of the run's non-error issues
\* that convert to an integer, and the overall score is the mean of that
\* list, left out when the list is empty.
C4_ScoresAreTheConvertibleBiasScores ==
    (pc = "idle" /\ Shown("summary")) =>
        /\ all_scores = ConvertibleScores(issues)
        /\ avg_score.defined <=> all_scores # <<>>
        /\ avg_score.defined =>
              avg_score.num = SumSeq(ConvertibleScores(issues))
              /\ avg_score.den = Len(ConvertibleScores(issues))

\* C5: in the run that handles a press of the run button with nothing
\* selected, no LLM call is made and the run ends with the warning shown.
C5_EmptySelectionNoLLMCall ==
    (button /\ selected = <<>>) =>
        /\ calls_in_run = 0
        /\ pc = "idle" => Shown("warning")

\* C7: a run that handles a press of the run button over a non-empty
\* selection, and that passed the relevance gate, ends with one analysis
\* call made for every selected segment, in selection order, and with the
\* summary shown, whatever the model replied.
C7_EverySelectedSegmentAnalysed ==
    (pc = "idle" /\ button /\ selected # <<>> /\ calls_in_run >= 1
        /\ ~GateBlocks(relevance)) =>
        /\ analysed = SelectedIndices
        /\ Shown("summary")

C10_RelevanceCheckedOncePerDocument ==
    relevance_calls <= 1

====
